---------------------------- MODULE Spec2Model ----------------------------
(***************************************************************************)
(* Alignment search of the Prokudin-Gorskii reconstruction:                *)
(*   code/alignment.py  ssd_metric, ncc_metric, align_bruteforce,          *)
(*                      pyramid_align                                      *)
(*   code/utils.py      apply_alignment                                    *)
(*   code/main.py       process_image (metric normalisation, the calls)    *)
(*                                                                         *)
(* A grid is a record [ndim, h, w, px]: px is the row-major sequence of    *)
(* the h*w samples (px[y*w + x + 1] is row y, column x).  Samples are      *)
(* small naturals, for which the float32 casts of the metrics are exact.   *)
(*                                                                         *)
(* Scores are exact numbers: a score is [inf, num, den] and stands for     *)
(* num / sqrt(den) when inf = 0, for -infinity when inf = -1 and for       *)
(* +infinity when inf = 1.  Rounding of the float32 arithmetic inside      *)
(* ncc_metric is not modelled; the 1e-8 guard appears as what it does to   *)
(* a constant grid (z-scores 0, score 0) and has no effect otherwise.      *)
(***************************************************************************)
EXTENDS Integers, Sequences, FiniteSets, TLC

VARIABLES
    entry,          \* the function called from outside
    reference, target, metric, use_pyramid,     \* its arguments
    search_range, levels, base_search, refine_search, edge_crop,
                    \* the search parameters (process_image fixes them)
    metric_name,    \* process_image: the normalised metric name
    pc,             \* position: "main", "call", "level", "loop_done",
                    \* "returned", "applied", "raised"
    ret,            \* what the search returned or raised, or NoResult
    aligned,        \* process_image: g_al = apply_alignment(g, dx_g, dy_g)
    refs, tars, dx_total, dy_total, lvl, est, search,   \* pyramid_align locals
    h, w, ch, cw, use_ncc, best_dx, best_dy, best_score, \* locals of both searches
    incs            \* history: lvl, increment and entering accumulator of
                    \* every finished pyramid level

args     == <<entry, reference, target, metric, use_pyramid>>
params   == <<search_range, levels, base_search, refine_search, edge_crop, metric_name>>
pyramid  == <<refs, tars, dx_total, dy_total, lvl, est, search, incs>>
locals   == <<h, w, ch, cw, use_ncc, best_dx, best_dy, best_score>>
vars     == <<args, params, pc, ret, aligned, pyramid, locals>>

(***************************************************************************)
(* Bounds of the model.                                                    *)
(***************************************************************************)
MaxPix    == 1      \* samples are drawn from 0..MaxPix
MaxRange  == 1      \* search radii are drawn from 0..MaxRange
MaxLevels == 3      \* levels is drawn from -1..MaxLevels
MaxDim    == 9      \* the crop specification draws sizes from 1..MaxDim

(***************************************************************************)
(* Python arithmetic.                                                      *)
(***************************************************************************)
Min(a, b) == IF a <= b THEN a ELSE b
Max(a, b) == IF a >= b THEN a ELSE b
Abs(a)    == IF a >= 0 THEN a ELSE -a

\* int(x) of the float x = n / d (d > 0): truncation toward zero.
IntTrunc(n, d) == IF n >= 0 THEN n \div d ELSE -((-n) \div d)

\* round(x) of the float x = n / d (d > 0): nearest integer, ties to even.
Round(n, d) ==
    LET fl == n \div d
        r2 == 2 * (n - fl * d)
    IN  IF r2 < d THEN fl
        ELSE IF r2 > d THEN fl + 1
        ELSE IF fl % 2 = 0 THEN fl ELSE fl + 1

RECURSIVE Pow2(_)
Pow2(k) == IF k <= 0 THEN 1 ELSE 2 * Pow2(k - 1)

\* s[1] + ... + s[n]
RECURSIVE SumTo(_, _)
SumTo(s, n) == IF n = 0 THEN 0 ELSE s[n] + SumTo(s, n - 1)

SumSeq(s) == SumTo(s, Len(s))

(***************************************************************************)
(* Grids and numpy operations on them.                                     *)
(***************************************************************************)
Grid(hh, ww, p) == [ndim |-> 2, h |-> hh, w |-> ww, px |-> p]

At(g, y, x) == g.px[y * g.w + x + 1]

\* np.roll(g, shift=(sy, sx), axis=(0, 1)): out[y][x] = g[(y-sy) % h][(x-sx) % w]
Roll(g, sy, sx) ==
    Grid(g.h, g.w,
         [i \in 1..(g.h * g.w) |->
             At(g, (((i - 1) \div g.w) - sy) % g.h, (((i - 1) % g.w) - sx) % g.w)])

\* g[r0:r1, c0:c1] for 0 <= r0, 0 <= c0: the slice stops at the array's end.
Slice(g, r0, r1, c0, c1) ==
    LET nh == Max(0, Min(r1, g.h) - r0)
        nw == Max(0, Min(c1, g.w) - c0)
    IN  Grid(nh, nw,
             [i \in 1..(nh * nw) |->
                 At(g, r0 + ((i - 1) \div nw), c0 + ((i - 1) % nw))])

\* g[::2, ::2]: every second row and column, starting with the first.
Decimate(g) ==
    LET nh == (g.h + 1) \div 2
        nw == (g.w + 1) \div 2
    IN  Grid(nh, nw,
             [i \in 1..(nh * nw) |->
                 At(g, 2 * ((i - 1) \div nw), 2 * ((i - 1) % nw))])

\* numpy broadcasting of two 2D operands: per axis equal sizes, or one is 1.
Broadcastable(a, b) ==
    /\ (a.h = b.h \/ a.h = 1 \/ b.h = 1)
    /\ (a.w = b.w \/ a.w = 1 \/ b.w = 1)

BH(a, b) == IF a.h = 1 THEN b.h ELSE a.h
BW(a, b) == IF a.w = 1 THEN b.w ELSE a.w

\* element (y, x) of g seen through a broadcast to a larger shape
BAt(g, y, x) == At(g, IF g.h = 1 THEN 0 ELSE y, IF g.w = 1 THEN 0 ELSE x)

(***************************************************************************)
(* Scores.                                                                 *)
(***************************************************************************)
Fin(n, d) == [inf |-> 0, num |-> n, den |-> d]
NegInf    == [inf |-> -1, num |-> 0, den |-> 1]
PosInf    == [inf |-> 1, num |-> 0, den |-> 1]

\* a/b < c/d for a, c >= 0 and b, d > 0, by integer parts and then the
\* inverted remainders (no product is formed)
RECURSIVE FracLess(_, _, _, _)
FracLess(a, b, c, d) ==
    IF a \div b # c \div d THEN a \div b < c \div d
    ELSE IF c % d = 0 THEN FALSE
    ELSE IF a % b = 0 THEN TRUE
    ELSE FracLess(d, c % d, b, a % b)

\* s < t for num/sqrt(den) values, by sign and then the squares num^2/den
FinLess(s, t) ==
    IF s.num < 0 /\ t.num >= 0 THEN TRUE
    ELSE IF s.num >= 0 /\ t.num < 0 THEN FALSE
    ELSE IF s.num >= 0
         THEN FracLess(s.num * s.num, s.den, t.num * t.num, t.den)
         ELSE FracLess(t.num * t.num, t.den, s.num * s.num, s.den)

Less(s, t) ==
    IF s.inf # 0 \/ t.inf # 0 THEN s.inf < t.inf ELSE FinLess(s, t)

Greater(s, t) == Less(t, s)
SameScore(s, t) == ~Less(s, t) /\ ~Less(t, s)

(***************************************************************************)
(* alignment.py: the two metrics.                                          *)
(***************************************************************************)
\* ssd_metric without the square: np.sum(diff)
ssd_metric_unsquared(a, b) ==
    LET n == BH(a, b) * BW(a, b)
        W == BW(a, b)
        d(i) == BAt(a, (i - 1) \div W, (i - 1) % W) - BAt(b, (i - 1) \div W, (i - 1) % W)
    IN  Fin(SumSeq([i \in 1..n |-> d(i)]), 1)

\* np.sum(diff * diff), diff = a - b
ssd_metric(a, b) ==
    LET n == BH(a, b) * BW(a, b)
        W == BW(a, b)
        d(i) == BAt(a, (i - 1) \div W, (i - 1) % W) - BAt(b, (i - 1) \div W, (i - 1) % W)
    IN  Fin(SumSeq([i \in 1..n |-> d(i) * d(i)]), 1)

\* np.sum(((a - a_mean) / a_std) * ((b - b_mean) / b_std)).  With na, nb the
\* sizes, Sa, Sb the sums and Va = na*sum(a^2) - Sa^2 (so a_std = sqrt(Va)/na):
\*   score = sum((na*a - Sa) * (nb*b - Sb)) / sqrt(Va * Vb).
\* A constant grid has Va = 0: its z-scores are 0 / 1e-8 = 0 and the score is 0.
ncc_metric(a, b) ==
    LET na == a.h * a.w
        nb == b.h * b.w
        Sa == SumSeq(a.px)
        Sb == SumSeq(b.px)
        Va == na * SumSeq([i \in 1..na |-> a.px[i] * a.px[i]]) - Sa * Sa
        Vb == nb * SumSeq([i \in 1..nb |-> b.px[i] * b.px[i]]) - Sb * Sb
        n  == BH(a, b) * BW(a, b)
        W  == BW(a, b)
        p(i) == (na * BAt(a, (i - 1) \div W, (i - 1) % W) - Sa)
                  * (nb * BAt(b, (i - 1) \div W, (i - 1) % W) - Sb)
    IN  IF Va = 0 \/ Vb = 0 THEN Fin(0, 1)
        ELSE Fin(SumSeq([i \in 1..n |-> p(i)]), Va * Vb)


(***************************************************************************)
(* alignment.py: align_bruteforce.                                         *)
(***************************************************************************)
\* metric.lower() on the metric names the model draws
Lower(s) ==
    CASE s = "NCC" -> "ncc"
      [] s = "Ncc" -> "ncc"
      [] s = "SSD" -> "ssd"
      [] s = "FOO" -> "foo"
      [] OTHER -> s

\* Margin without the cap: max(0, int(n * edge_crop))
MarginUncapped(n, ec) == Max(0, IntTrunc(n * ec[1], ec[2]))

\* Margin with round() for int(): min(max(0, round(n * edge_crop)), n // 4)
MarginRounded(n, ec) == Min(Max(0, Round(n * ec[1], ec[2])), n \div 4)

\* min(max(0, int(n * edge_crop)), n // 4), edge_crop = ec[1] / ec[2]
Margin(n, ec) == Min(Max(0, IntTrunc(n * ec[1], ec[2])), n \div 4)

\* best_score, best_dx, best_dy before the loops
BestInit(ncc) ==
    [err |-> FALSE, score |-> IF ncc THEN NegInf ELSE PosInf, dx |-> 0, dy |-> 0]

\* BFStep rolling by shift=(dx, dy): the axes swapped
BFStepSwappedAxes(best, rcrop, tgt, hh, ww, mh, mw, ncc, cdy, cdx) ==
    LET shifted_crop == Slice(Roll(tgt, cdx, cdy), mh, hh - mh, mw, ww - mw)
        score        == IF ncc THEN ncc_metric(rcrop, shifted_crop)
                               ELSE ssd_metric(rcrop, shifted_crop)
    IN  IF ~Broadcastable(rcrop, shifted_crop) THEN [best EXCEPT !.err = TRUE]
        ELSE IF (ncc /\ Greater(score, best.score)) \/ (~ncc /\ Less(score, best.score))
             THEN [best EXCEPT !.score = score, !.dx = cdx, !.dy = cdy]
             ELSE best

\* BFStep with >= and <= for > and <: the last of several tied candidates wins.
BFStepLastWins(best, rcrop, tgt, hh, ww, mh, mw, ncc, cdy, cdx) ==
    LET shifted_crop == Slice(Roll(tgt, cdy, cdx), mh, hh - mh, mw, ww - mw)
        score        == IF ncc THEN ncc_metric(rcrop, shifted_crop)
                               ELSE ssd_metric(rcrop, shifted_crop)
    IN  IF ~Broadcastable(rcrop, shifted_crop) THEN [best EXCEPT !.err = TRUE]
        ELSE IF (ncc /\ ~Less(score, best.score)) \/ (~ncc /\ ~Greater(score, best.score))
             THEN [best EXCEPT !.score = score, !.dx = cdx, !.dy = cdy]
             ELSE best

\* One pass of the inner loop body for the candidate (cdy, cdx): roll, crop,
\* score, compare.  The metric raises ValueError when the two crops do not
\* broadcast.
BFStep(best, rcrop, tgt, hh, ww, mh, mw, ncc, cdy, cdx) ==
    LET shifted      == Roll(tgt, cdy, cdx)
        shifted_crop == Slice(shifted, mh, hh - mh, mw, ww - mw)
        score        == IF ncc THEN ncc_metric(rcrop, shifted_crop)
                               ELSE ssd_metric(rcrop, shifted_crop)
    IN  IF ~Broadcastable(rcrop, shifted_crop) THEN [best EXCEPT !.err = TRUE]
        ELSE IF ncc
             THEN IF Greater(score, best.score)
                  THEN [best EXCEPT !.score = score, !.dx = cdx, !.dy = cdy]
                  ELSE best
             ELSE IF Less(score, best.score)
                  THEN [best EXCEPT !.score = score, !.dx = cdx, !.dy = cdy]
                  ELSE best

\* for dx in range(-R, R + 1), from cdx on
RECURSIVE BFInner(_, _, _, _, _, _, _, _, _, _, _)
BFInner(best, rcrop, tgt, hh, ww, mh, mw, ncc, R, cdy, cdx) ==
    IF cdx > R \/ best.err THEN best
    ELSE BFInner(BFStep(best, rcrop, tgt, hh, ww, mh, mw, ncc, cdy, cdx),
                 rcrop, tgt, hh, ww, mh, mw, ncc, R, cdy, cdx + 1)

\* for dy in range(-R, R + 1), from cdy on
RECURSIVE BFOuter(_, _, _, _, _, _, _, _, _, _)
BFOuter(best, rcrop, tgt, hh, ww, mh, mw, ncc, R, cdy) ==
    IF cdy > R \/ best.err THEN best
    ELSE BFOuter(BFInner(best, rcrop, tgt, hh, ww, mh, mw, ncc, R, cdy, -R),
                 rcrop, tgt, hh, ww, mh, mw, ncc, R, cdy + 1)

\* The whole call.  status is "ok", "AssertionError" or "ValueError".
AlignBruteforce(ref, tgt, R, mname, ec) ==
    IF ~(ref.ndim = 2 /\ tgt.ndim = 2)
    THEN [status |-> "AssertionError", dx |-> 0, dy |-> 0, score |-> NegInf,
          h |-> 0, w |-> 0, ch |-> 0, cw |-> 0, use_ncc |-> FALSE]
    ELSE
    LET hh    == ref.h
        ww    == ref.w
        mh    == Margin(hh, ec)
        mw    == Margin(ww, ec)
        rcrop == Slice(ref, mh, hh - mh, mw, ww - mw)
        ncc   == (Lower(mname) = "ncc")
        best  == BFOuter(BestInit(ncc), rcrop, tgt, hh, ww, mh, mw, ncc, R, -R)
    IN  [status |-> IF best.err THEN "ValueError" ELSE "ok",
         dx |-> best.dx, dy |-> best.dy, score |-> best.score,
         h |-> hh, w |-> ww, ch |-> mh, cw |-> mw, use_ncc |-> ncc]

(***************************************************************************)
(* alignment.py: pyramid_align.                                            *)
(***************************************************************************)
\* refs = [g]; then `more` times refs.append(refs[-1][::2, ::2])
RECURSIVE Pyramid(_, _)
Pyramid(seq, more) ==
    IF more <= 0 THEN seq
    ELSE Pyramid(Append(seq, Decimate(seq[Len(seq)])), more - 1)

\* PyrStep with >= and <= for > and <: the last of several tied candidates wins.
PyrStepLastWins(best, rcrop, estg, hh, ww, mh, mw, ncc, cddy, cddx) ==
    LET shifted_crop == Slice(Roll(estg, cddy, cddx), mh, hh - mh, mw, ww - mw)
        score        == IF ncc THEN ncc_metric(rcrop, shifted_crop)
                               ELSE ssd_metric(rcrop, shifted_crop)
    IN  IF ~Broadcastable(rcrop, shifted_crop) THEN [best EXCEPT !.err = TRUE]
        ELSE IF (ncc /\ ~Less(score, best.score)) \/ (~ncc /\ ~Greater(score, best.score))
             THEN [best EXCEPT !.score = score, !.dx = cddx, !.dy = cddy]
             ELSE best

\* One pass of the inner loop body of a level for the candidate (cddy, cddx)
\* on the working estimate estg.
PyrStep(best, rcrop, estg, hh, ww, mh, mw, ncc, cddy, cddx) ==
    LET shifted      == Roll(estg, cddy, cddx)
        shifted_crop == Slice(shifted, mh, hh - mh, mw, ww - mw)
        score        == IF ncc THEN ncc_metric(rcrop, shifted_crop)
                               ELSE ssd_metric(rcrop, shifted_crop)
    IN  IF ~Broadcastable(rcrop, shifted_crop) THEN [best EXCEPT !.err = TRUE]
        ELSE IF ncc
             THEN IF Greater(score, best.score)
                  THEN [best EXCEPT !.score = score, !.dx = cddx, !.dy = cddy]
                  ELSE best
             ELSE IF Less(score, best.score)
                  THEN [best EXCEPT !.score = score, !.dx = cddx, !.dy = cddy]
                  ELSE best

\* for ddx in range(-search, search + 1), from cddx on
RECURSIVE PyrInner(_, _, _, _, _, _, _, _, _, _, _)
PyrInner(best, rcrop, estg, hh, ww, mh, mw, ncc, sr, cddy, cddx) ==
    IF cddx > sr \/ best.err THEN best
    ELSE PyrInner(PyrStep(best, rcrop, estg, hh, ww, mh, mw, ncc, cddy, cddx),
                  rcrop, estg, hh, ww, mh, mw, ncc, sr, cddy, cddx + 1)

\* for ddy in range(-search, search + 1), from cddy on
RECURSIVE PyrOuter(_, _, _, _, _, _, _, _, _, _)
PyrOuter(best, rcrop, estg, hh, ww, mh, mw, ncc, sr, cddy) ==
    IF cddy > sr \/ best.err THEN best
    ELSE PyrOuter(PyrInner(best, rcrop, estg, hh, ww, mh, mw, ncc, sr, cddy, -sr),
                  rcrop, estg, hh, ww, mh, mw, ncc, sr, cddy + 1)

\* search = base_search if lvl == 0 else refine_search
LevelSearch(l, base, refine) == IF l = 0 THEN base ELSE refine

\* Accumulate with the doubling applied at level 0 too
AccumulateAlwaysDoubled(total, inc, l) == (total + inc) * 2

\* total += best; if lvl != 0: total *= 2
Accumulate(total, inc, l) == IF l # 0 THEN (total + inc) * 2 ELSE total + inc

(***************************************************************************)
(* utils.py: apply_alignment.                                              *)
(***************************************************************************)
\* apply_alignment with the two shifts exchanged: shift=(dx, dy)
ApplyAlignmentSwapped(channel, adx, ady) == Roll(channel, adx, ady)

\* np.roll(channel, shift=(dy, dx), axis=(0, 1))
ApplyAlignment(channel, adx, ady) == Roll(channel, ady, adx)

(***************************************************************************)
(* main.py: process_image, up to the shift of the aligned channel.         *)
(***************************************************************************)
\* metric_name = metric.lower(); anything but "ssd" and "ncc" becomes "ncc"
NormaliseMetric(m) == IF Lower(m) \notin {"ssd", "ncc"} THEN "ncc" ELSE Lower(m)

MainSearchRange  == 15
MainLevels       == 5
MainBaseSearch   == 4
MainRefineSearch == 2
DefaultEdgeCrop  == <<1, 10>>

\* the search function that runs, and the metric argument it receives
Callee ==
    IF entry = "process_image"
    THEN IF use_pyramid THEN "pyramid_align" ELSE "align_bruteforce"
    ELSE entry
SearchMetric == IF entry = "process_image" THEN metric_name ELSE metric

(***************************************************************************)
(* Actions.                                                                *)
(***************************************************************************)
NoGrid   == [ndim |-> 0, h |-> 0, w |-> 0, px |-> <<>>]
NoResult == [status |-> "none"]

\* process_image: normalise the metric and fix the parameters of the call
ProcessImage ==
    /\ pc = "main" /\ entry = "process_image"
    /\ metric_name' = NormaliseMetric(metric)
    /\ edge_crop' = DefaultEdgeCrop
    /\ IF use_pyramid
       THEN /\ levels' = MainLevels /\ base_search' = MainBaseSearch
            /\ refine_search' = MainRefineSearch /\ search_range' = search_range
       ELSE /\ search_range' = MainSearchRange
            /\ UNCHANGED <<levels, base_search, refine_search>>
    /\ pc' = "call"
    /\ UNCHANGED <<args, ret, aligned, pyramid, locals>>

\* align_bruteforce, from the assertion to the return
CallAlignBruteforce ==
    /\ pc = "call" /\ Callee = "align_bruteforce"
    /\ \E r \in {AlignBruteforce(reference, target, search_range, SearchMetric, edge_crop)} :
           /\ h' = r.h /\ w' = r.w /\ ch' = r.ch /\ cw' = r.cw
           /\ use_ncc' = r.use_ncc
           /\ best_dx' = r.dx /\ best_dy' = r.dy /\ best_score' = r.score
           /\ IF r.status = "ok"
              THEN /\ pc' = "returned"
                   /\ ret' = [status |-> "ok", dx |-> r.dx, dy |-> r.dy,
                              score |-> r.score]
              ELSE /\ pc' = "raised"
                   /\ ret' = [status |-> r.status]
    /\ UNCHANGED <<args, params, aligned, pyramid>>

\* pyramid_align: the assertion, the two pyramids, the accumulator
PyrEnter ==
    /\ pc = "call" /\ Callee = "pyramid_align"
    /\ IF ~(reference.ndim = 2 /\ target.ndim = 2)
       THEN /\ pc' = "raised"
            /\ ret' = [status |-> "AssertionError"]
            /\ UNCHANGED <<refs, tars, dx_total, dy_total, lvl, use_ncc>>
       ELSE /\ refs' = Pyramid(<<reference>>, Max(1, levels) - 1)
            /\ tars' = Pyramid(<<target>>, Max(1, levels) - 1)
            /\ dx_total' = 0 /\ dy_total' = 0
            /\ use_ncc' = (Lower(SearchMetric) = "ncc")
            /\ lvl' = Len(refs') - 1
            /\ pc' = "level"
            /\ ret' = ret
    /\ UNCHANGED <<args, params, aligned, est, search, incs,
                   h, w, ch, cw, best_dx, best_dy, best_score>>

\* pyramid_align: one pass of `for lvl in reversed(range(len(refs)))`
PyrLevel ==
    /\ pc = "level"
    /\ LET ref_l == refs[lvl + 1]
           tar_l == tars[lvl + 1]
           e     == Roll(tar_l, dy_total, dx_total)
           sr    == LevelSearch(lvl, base_search, refine_search)
           mh    == Margin(ref_l.h, edge_crop)
           mw    == Margin(ref_l.w, edge_crop)
           rcrop == Slice(ref_l, mh, ref_l.h - mh, mw, ref_l.w - mw)
       IN  \E best \in {PyrOuter(BestInit(use_ncc), rcrop, e, ref_l.h, ref_l.w,
                                  mh, mw, use_ncc, sr, -sr)} :
             /\ est' = e /\ search' = sr
             /\ h' = ref_l.h /\ w' = ref_l.w /\ ch' = mh /\ cw' = mw
             /\ best_dx' = best.dx /\ best_dy' = best.dy /\ best_score' = best.score
             /\ IF best.err
                THEN /\ pc' = "raised"
                     /\ ret' = [status |-> "ValueError"]
                     /\ UNCHANGED <<dx_total, dy_total, lvl, incs>>
                ELSE /\ dx_total' = Accumulate(dx_total, best.dx, lvl)
                     /\ dy_total' = Accumulate(dy_total, best.dy, lvl)
                     /\ incs' = Append(incs, [lvl |-> lvl, dx |-> best.dx, dy |-> best.dy,
                                              acc_dx |-> dx_total, acc_dy |-> dy_total])
                     /\ ret' = ret
                     /\ IF lvl = 0
                        THEN pc' = "loop_done" /\ lvl' = lvl
                        ELSE pc' = "level" /\ lvl' = lvl - 1
    /\ UNCHANGED <<args, params, aligned, refs, tars, use_ncc>>

\* pyramid_align: return int(dx_total), int(dy_total)
PyrReturn ==
    /\ pc = "loop_done"
    /\ ret' = [status |-> "ok", dx |-> dx_total, dy |-> dy_total]
    /\ pc' = "returned"
    /\ UNCHANGED <<args, params, aligned, pyramid, locals>>

\* process_image: g_al = apply_alignment(g, dx_g, dy_g)
ApplyShift ==
    /\ pc = "returned"
    /\ aligned' = ApplyAlignment(target, ret.dx, ret.dy)
    /\ pc' = "applied"
    /\ UNCHANGED <<args, params, ret, pyramid, locals>>

NextBF  == CallAlignBruteforce \/ ApplyShift
NextPyr == PyrEnter \/ PyrLevel \/ PyrReturn \/ ApplyShift
NextSearch ==
    CallAlignBruteforce \/ PyrEnter \/ PyrLevel \/ PyrReturn \/ ApplyShift
Next ==
    \/ ProcessImage
    \/ CallAlignBruteforce
    \/ PyrEnter
    \/ PyrLevel
    \/ PyrReturn
    \/ ApplyShift

(***************************************************************************)
(* Input sets and initial states.                                          *)
(***************************************************************************)
AllGrids(hh, ww) == {Grid(hh, ww, p) : p \in [1..(hh * ww) -> 0..MaxPix]}

\* the grids of a shape with at most two nonzero samples
TwoPointGrids(hh, ww) ==
    {Grid(hh, ww, [k \in 1..(hh * ww) |-> IF k = i THEN a ELSE IF k = j THEN b ELSE 0]) :
        i \in 1..(hh * ww), j \in 1..(hh * ww), a \in 0..MaxPix, b \in 0..MaxPix}

\* a diagonal ramp, folded into the sample range
Ramp(hh, ww) ==
    Grid(hh, ww, [i \in 1..(hh * ww) |->
                     (((i - 1) \div ww) + ((i - 1) % ww)) % (MaxPix + 1)])

\* arrays that are not 2-dimensional
NonGrids == {[ndim |-> 1, h |-> 1, w |-> 2, px |-> <<0, 1>>],
             [ndim |-> 3, h |-> 1, w |-> 2, px |-> <<0, 1>>]}

\* edge_crop values as <<numerator, denominator>>
EdgeCrops == {<<0, 1>>, DefaultEdgeCrop, <<1, 4>>}

MetricNames == {"ncc", "Ncc", "SSD", "foo"}

\* no call has run yet
Idle ==
    /\ ret = NoResult /\ aligned = NoGrid /\ metric_name = ""
    /\ refs = <<>> /\ tars = <<>> /\ dx_total = 0 /\ dy_total = 0
    /\ lvl = 0 /\ est = NoGrid /\ search = 0
    /\ h = 0 /\ w = 0 /\ ch = 0 /\ cw = 0 /\ use_ncc = FALSE
    /\ best_dx = 0 /\ best_dy = 0 /\ best_score = NegInf /\ incs = <<>>

DirectBF ==
    /\ entry = "align_bruteforce" /\ pc = "call" /\ use_pyramid = FALSE
    /\ levels = 1 /\ base_search = 0 /\ refine_search = 0
    /\ Idle

DirectPyr ==
    /\ entry = "pyramid_align" /\ pc = "call" /\ use_pyramid = TRUE
    /\ search_range = 0
    /\ Idle

(***************************************************************************)
(* Spec: calls from process_image and direct calls of the two searches,    *)
(* with any metric name, arrays of any dimensionality and shape.           *)
(***************************************************************************)
GeneralGrids ==
    AllGrids(1, 1) \cup AllGrids(1, 2) \cup AllGrids(2, 1) \cup AllGrids(1, 3)
        \cup NonGrids

Init ==
    /\ metric \in MetricNames
    /\ \/ /\ entry = "process_image" /\ pc = "main" /\ use_pyramid \in BOOLEAN
          /\ \E sh \in {<<1, 2>>, <<2, 1>>} :
                /\ reference \in AllGrids(sh[1], sh[2])
                /\ target \in AllGrids(sh[1], sh[2])
          /\ search_range = 0 /\ levels = 0 /\ base_search = 0 /\ refine_search = 0
          /\ edge_crop = <<0, 1>>
          /\ Idle
       \/ /\ DirectBF
          /\ reference \in GeneralGrids /\ target \in GeneralGrids
          /\ search_range \in 0..MaxRange
          /\ edge_crop = DefaultEdgeCrop
       \/ /\ DirectPyr
          /\ reference \in GeneralGrids /\ target \in GeneralGrids
          /\ levels \in 1..2
          /\ base_search \in 0..MaxRange /\ refine_search \in 0..MaxRange
          /\ edge_crop = DefaultEdgeCrop

Spec == Init /\ [][Next]_vars

(***************************************************************************)
(* SpecBF: align_bruteforce on arbitrary pairs of grids of equal shape.    *)
(***************************************************************************)
PairShapes == {<<1, 1>>, <<1, 2>>, <<2, 2>>, <<1, 4>>}

InitBF ==
    /\ DirectBF
    /\ \E sh \in PairShapes :
          /\ reference \in AllGrids(sh[1], sh[2])
          /\ target \in AllGrids(sh[1], sh[2])
    /\ search_range \in 0..MaxRange
    /\ metric \in {"ncc", "ssd"}
    /\ edge_crop \in EdgeCrops

SpecBF == InitBF /\ [][NextBF]_vars

(***************************************************************************)
(* What the claims speak of.                                               *)
(***************************************************************************)
\* the candidates <<dy, dx>> of radius R and their enumeration order
Cands(R) == (-R..R) \X (-R..R)
Before(c, d) == c[1] < d[1] \/ (c[1] = d[1] /\ c[2] < d[2])

\* the metric value of the cropped ref against the cropped tgt shifted by c
CandScore(ref, tgt, ec, ncc, c) ==
    LET mh == Margin(ref.h, ec)
        mw == Margin(ref.w, ec)
        a  == Slice(ref, mh, ref.h - mh, mw, ref.w - mw)
        b  == Slice(Roll(tgt, c[1], c[2]), mh, ref.h - mh, mw, ref.w - mw)
    IN  IF ncc THEN ncc_metric(a, b) ELSE ssd_metric(a, b)

Better(ncc, s, t) == IF ncc THEN Greater(s, t) ELSE Less(s, t)

BFReturned == Callee = "align_bruteforce" /\ pc \in {"returned", "applied"}

\* C1: align_bruteforce on equally-shaped grids returns (dx, dy, score) with
\* |dx|, |dy| <= R; score is the metric value at (dx, dy); no candidate of
\* [-R,R] x [-R,R] scores strictly better (greater for NCC, lesser for SSD);
\* and no candidate with the same score comes earlier in row-major order.
C1_OptimalFirst ==
    BFReturned =>
        LET ncc == (metric = "ncc")
            sc(c) == CandScore(reference, target, edge_crop, ncc, c)
            r == <<ret.dy, ret.dx>>
        IN  /\ Abs(ret.dx) <= search_range /\ Abs(ret.dy) <= search_range
            /\ ret.score = sc(r)
            /\ \A c \in Cands(search_range) :
                  /\ ~Better(ncc, sc(c), ret.score)
                  /\ SameScore(sc(c), ret.score) => ~Before(c, r)

\* C1 witness: a returned optimum that is not the first candidate, is tied
\* with a later candidate and beats an earlier one.
C1_Witness ==
    /\ BFReturned /\ search_range >= 1
    /\ LET ncc == (metric = "ncc")
           sc(c) == CandScore(reference, target, edge_crop, ncc, c)
           r == <<ret.dy, ret.dx>>
       IN  /\ \E c \in Cands(search_range) : Before(r, c) /\ SameScore(sc(c), ret.score)
           /\ \E c \in Cands(search_range) : Before(c, r) /\ Better(ncc, ret.score, sc(c))


(***************************************************************************)
(* Specification of align_bruteforce on a grid and a circular shift of it. *)
(***************************************************************************)
ShiftShapes == {<<2, 2>>, <<1, 4>>, <<3, 3>>, <<3, 4>>}

InitShift ==
    /\ DirectBF
    /\ search_range \in 0..MaxRange
    /\ \E sh \in ShiftShapes : reference \in TwoPointGrids(sh[1], sh[2])
    /\ \E s \in Cands(search_range) : target = ApplyAlignment(reference, s[2], s[1])
    /\ metric \in {"ncc", "ssd"}
    /\ edge_crop \in {DefaultEdgeCrop, <<1, 4>>}

SpecShift == InitShift /\ [][NextBF]_vars

\* No metric plateau within reach: every nonzero displacement of up to 2R
\* scores strictly worse against G than the zero displacement.
NonPeriodic(G, R, ec, ncc) ==
    \E s0 \in {CandScore(G, G, ec, ncc, <<0, 0>>)} :
        \A e \in Cands(2 * R) \ {<<0, 0>>} :
            Better(ncc, s0, CandScore(G, G, ec, ncc, e))

\* C2 as stated: for non-periodic G and |sdx|, |sdy| <= R, the search of G
\* against G shifted by (sdx, sdy) returns (sdx, sdy).
C2_AsStated ==
    BFReturned =>
        \A s \in Cands(search_range) :
            (/\ target = ApplyAlignment(reference, s[2], s[1])
             /\ NonPeriodic(reference, search_range, edge_crop, metric = "ncc"))
            => (ret.dx = s[2] /\ ret.dy = s[1])

\* C2 amended: for non-periodic G and |sdx|, |sdy| <= R, the search of G
\* against G shifted by (sdx, sdy) returns the displacement that undoes the
\* shift, (-sdx, -sdy), with the score of G against itself.
C2_RecoversInverse ==
    BFReturned =>
        \A s \in Cands(search_range) :
            (/\ target = ApplyAlignment(reference, s[2], s[1])
             /\ NonPeriodic(reference, search_range, edge_crop, metric = "ncc"))
            => /\ ret.dx = -s[2] /\ ret.dy = -s[1]
               /\ ret.score = CandScore(reference, reference, edge_crop,
                                        metric = "ncc", <<0, 0>>)

\* C2 witness: a non-periodic grid of which a margin is cropped, shifted by
\* (+1, -1), and the search returns (-1, +1).
C2_Witness ==
    /\ BFReturned /\ search_range = 1 /\ ch + cw > 0
    /\ target = ApplyAlignment(reference, 1, -1)
    /\ NonPeriodic(reference, search_range, edge_crop, metric = "ncc")
    /\ ret.dx = -1 /\ ret.dy = 1

NonConstant(G) == \E i, j \in 1..(G.h * G.w) : G.px[i] # G.px[j]

\* C3 as stated: a grid that is not constant, searched against itself,
\* yields the displacement (0, 0).
C3_AsStated ==
    (BFReturned /\ target = reference /\ NonConstant(reference))
        => (ret.dx = 0 /\ ret.dy = 0)

\* C3 amended: for a grid searched against itself the zero displacement is a
\* best candidate (the returned score is the score of (0, 0)), and the
\* result is (0, 0) exactly when no candidate enumerated before (0, 0) has
\* that same score.
C3_ZeroShiftOptimal ==
    (BFReturned /\ target = reference) =>
        LET ncc == (metric = "ncc")
            sc(c) == CandScore(reference, reference, edge_crop, ncc, c)
        IN  /\ SameScore(ret.score, sc(<<0, 0>>))
            /\ (ret.dx = 0 /\ ret.dy = 0)
                 <=> \A c \in Cands(search_range) :
                        Before(c, <<0, 0>>) => ~SameScore(sc(c), sc(<<0, 0>>))

\* C3 witness: a non-constant grid searched against itself with R >= 1 that
\* does yield (0, 0), every earlier candidate scoring strictly worse.
C3_Witness ==
    /\ BFReturned /\ target = reference /\ NonConstant(reference)
    /\ search_range >= 1 /\ ret.dx = 0 /\ ret.dy = 0

(***************************************************************************)
(* Claims about rejected inputs and about the applied shift, under Spec.   *)
(***************************************************************************)
DirectCall == entry \in {"align_bruteforce", "pyramid_align"}
Finished == pc \in {"returned", "applied"}
SameShape(a, b) == a.ndim = b.ndim /\ a.h = b.h /\ a.w = b.w

\* C4 as stated: align_bruteforce and pyramid_align fail, and build no
\* pyramid, when reference and target are not both 2-dimensional or differ
\* in shape; no (dx, dy) is returned for a pair of different shapes.
C4_AsStated ==
    (DirectCall /\ ~(reference.ndim = 2 /\ target.ndim = 2 /\ SameShape(reference, target)))
        => (~Finished /\ ret.status # "ok" /\ refs = <<>> /\ pc \notin {"level", "loop_done"})

\* C5 as stated: called with a metric name outside {SSD, NCC}, the two search
\* functions run no search and return no displacement.
C5_AsStated ==
    (DirectCall /\ Lower(metric) \notin {"ssd", "ncc"})
        => (pc \in {"call", "raised"} /\ ret.status # "ok")

\* C6: the grid apply_alignment(target, dx, dy) built from a returned
\* (dx, dy, score) is the shifted candidate the search scored for (dx, dy):
\* the metric of the cropped reference against the same crop of it is the
\* returned score.  And in pyramid_align the candidate a level settles on,
\* the estimate shifted by the increment, is apply_alignment of that level's
\* target by accumulator + increment.
C6_SameShiftModel ==
    /\ (pc = "applied" /\ Callee = "align_bruteforce") =>
          LET a == Slice(reference, ch, h - ch, cw, w - cw)
              b == Slice(aligned, ch, h - ch, cw, w - cw)
          IN  /\ aligned = Roll(target, ret.dy, ret.dx)
              /\ ret.score = IF use_ncc THEN ncc_metric(a, b) ELSE ssd_metric(a, b)
    /\ (Callee = "pyramid_align" /\ incs # <<>> /\ pc \in {"level", "loop_done"}) =>
          LET r == incs[Len(incs)]
          IN  ApplyAlignment(est, r.dx, r.dy)
                = ApplyAlignment(tars[r.lvl + 1], r.acc_dx + r.dx, r.acc_dy + r.dy)

\* C6 witness: a shift with dx # dy applied after align_bruteforce, and a
\* pyramid level that adds a nonzero increment to a nonzero accumulator.
C6_Witness ==
    \/ /\ pc = "applied" /\ Callee = "align_bruteforce"
       /\ ret.dx # ret.dy /\ aligned # target
    \/ /\ Callee = "pyramid_align" /\ incs # <<>> /\ pc \in {"level", "loop_done"}
       /\ incs[Len(incs)].acc_dx # 0 /\ incs[Len(incs)].dx # 0
       /\ est # tars[incs[Len(incs)].lvl + 1]

(***************************************************************************)
(* SpecPyr: pyramid_align on pairs of grids of equal shape.                *)
(***************************************************************************)
InitPyr ==
    /\ DirectPyr
    /\ \/ /\ reference \in TwoPointGrids(1, 4)
          /\ target \in TwoPointGrids(1, 4)
       \/ /\ reference \in TwoPointGrids(2, 4)
          /\ target = ApplyAlignment(reference, 1, 1)
       \/ /\ reference \in TwoPointGrids(1, 8)
          /\ target = ApplyAlignment(reference, 3, 0)
    /\ levels \in -1..MaxLevels
    /\ base_search \in 0..MaxRange
    /\ refine_search \in 0..MaxRange
    /\ metric \in {"ncc", "ssd"}
    /\ edge_crop \in {DefaultEdgeCrop, <<1, 4>>}

SpecPyr == InitPyr /\ [][NextPyr]_vars

\* level k of a pyramid: every second row and column of level k - 1
RECURSIVE Level(_, _)
Level(g, k) == IF k <= 0 THEN g ELSE Decimate(Level(g, k - 1))

NLevels == Max(1, levels)

\* sum over the finished levels of 2^lvl times the level's increment
RECURSIVE WeightedSum(_, _, _)
WeightedSum(rs, n, dxOrDy) ==
    IF n = 0 THEN 0
    ELSE Pow2(rs[n].lvl) * (IF dxOrDy = "dx" THEN rs[n].dx ELSE rs[n].dy)
           + WeightedSum(rs, n - 1, dxOrDy)

InPyramid == Callee = "pyramid_align" /\ pc \in {"level", "loop_done", "returned", "applied"}

\* C9: pyramid_align composes align_bruteforce per level.  Level k is level
\* k - 1 decimated; levels run from the coarsest to level 0; the accumulator
\* starts at (0, 0) and is doubled after every level but level 0; the
\* increment of a level is what align_bruteforce returns for that level's
\* reference and that level's target shifted by the entering accumulator,
\* with radius base_search at level 0 and refine_search elsewhere and the
\* margin of that level's own size; the result is the sum of 2^k times the
\* level-k increment, and with one level it is align_bruteforce's (dx, dy)
\* for search_range = base_search.
C9_PerLevelBruteforce ==
    InPyramid =>
      /\ Len(refs) = NLevels /\ Len(tars) = NLevels
      /\ \A k \in 0..(NLevels - 1) :
            refs[k + 1] = Level(reference, k) /\ tars[k + 1] = Level(target, k)
      /\ \A i \in 1..Len(incs) :
            /\ incs[i].lvl = NLevels - i
            /\ incs[i].acc_dx = IF i = 1 THEN 0 ELSE 2 * (incs[i - 1].acc_dx + incs[i - 1].dx)
            /\ incs[i].acc_dy = IF i = 1 THEN 0 ELSE 2 * (incs[i - 1].acc_dy + incs[i - 1].dy)
      /\ (pc \in {"level", "loop_done"} /\ incs # <<>>) =>
            LET r == incs[Len(incs)]
            IN  \E bf \in {AlignBruteforce(
                              Level(reference, r.lvl),
                              ApplyAlignment(Level(target, r.lvl), r.acc_dx, r.acc_dy),
                              IF r.lvl = 0 THEN base_search ELSE refine_search,
                              metric, edge_crop)} :
                  /\ bf.status = "ok"
                  /\ r.dx = bf.dx /\ r.dy = bf.dy
                  /\ best_dx = bf.dx /\ best_dy = bf.dy /\ best_score = bf.score
                  /\ ch = bf.ch /\ cw = bf.cw
                  /\ dx_total = (r.acc_dx + bf.dx) * (IF r.lvl = 0 THEN 1 ELSE 2)
                  /\ dy_total = (r.acc_dy + bf.dy) * (IF r.lvl = 0 THEN 1 ELSE 2)
      /\ Finished =>
            /\ Len(incs) = NLevels
            /\ ret.dx = WeightedSum(incs, Len(incs), "dx")
            /\ ret.dy = WeightedSum(incs, Len(incs), "dy")
            /\ NLevels = 1 =>
                  \E bf \in {AlignBruteforce(reference, target, base_search,
                                             metric, edge_crop)} :
                      ret.dx = bf.dx /\ ret.dy = bf.dy

\* C9 witness: a finished call of three levels, each of which contributes
\* a nonzero increment, the two coarser ones different increments, with a
\* margin cropped at level 0.
C9_Witness ==
    /\ Callee = "pyramid_align" /\ pc = "returned" /\ Len(incs) = 3
    /\ incs[1].dx # 0 /\ incs[2].dx # 0 /\ incs[3].dx # 0
    /\ incs[1].dx # incs[2].dx
    /\ cw > 0

\* C10: pyramid_align builds exactly N = max(1, levels) levels and visits
\* each once; the accumulator entering level k is even and at most
\* refine_search * (2^(N-k) - 2) in absolute value; the returned |dx| and
\* |dy| are at most base_search + refine_search * (2^N - 2).
C10_ReachBound ==
    InPyramid =>
      /\ Len(refs) = NLevels /\ Len(tars) = NLevels
      /\ pc = "level" =>
            /\ Len(incs) = NLevels - 1 - lvl
            /\ dx_total % 2 = 0 /\ dy_total % 2 = 0
            /\ Abs(dx_total) <= refine_search * (Pow2(NLevels - lvl) - 2)
            /\ Abs(dy_total) <= refine_search * (Pow2(NLevels - lvl) - 2)
      /\ Finished =>
            /\ Len(incs) = NLevels
            /\ Abs(ret.dx) <= base_search + refine_search * (Pow2(NLevels) - 2)
            /\ Abs(ret.dy) <= base_search + refine_search * (Pow2(NLevels) - 2)

\* C10 witness: a call of several levels that returns a displacement on the
\* bound, and one with levels <= 0 that ran as one level.
C10_Witness ==
    /\ Callee = "pyramid_align" /\ pc = "returned"
    /\ \/ /\ levels >= 3 /\ refine_search >= 1
          /\ Abs(ret.dx) = base_search + refine_search * (Pow2(NLevels) - 2)
       \/ /\ levels <= 0 /\ base_search >= 1 /\ Len(refs) = 1
          /\ Abs(ret.dx) = base_search

(***************************************************************************)
(* SpecCrop: both searches over sizes 1..MaxDim and many edge_crop values. *)
(***************************************************************************)
CropShapes ==
    {<<n, 1>> : n \in 1..MaxDim} \cup {<<1, n>> : n \in 1..MaxDim}
        \cup {<<n, MaxDim + 1 - n>> : n \in 1..MaxDim}

\* sixteenths from -1/4 to 3/4 (exact as floats) and the default 0.10
CropFractions == {<<k, 16>> : k \in -4..12} \cup {DefaultEdgeCrop}

InitCrop ==
    /\ \E sh \in CropShapes : reference = Ramp(sh[1], sh[2])
    /\ target = ApplyAlignment(reference, 1, 1)
    /\ edge_crop \in CropFractions
    /\ metric \in {"ncc", "ssd"}
    /\ \/ DirectBF /\ search_range \in 0..MaxRange
       \/ /\ DirectPyr /\ levels \in 1..MaxLevels
          /\ base_search = MaxRange /\ refine_search = MaxRange

SpecCrop == InitCrop /\ [][NextSearch]_vars

\* h and w are the sizes of the grid last scored: the reference, or the
\* reference at the pyramid level just finished
SizesOfScoredGrid ==
    IF Callee = "align_bruteforce"
    THEN h = reference.h /\ w = reference.w
    ELSE incs # <<>> /\ h = refs[incs[Len(incs)].lvl + 1].h
                     /\ w = refs[incs[Len(incs)].lvl + 1].w

\* C7: for every size n >= 1 and every edge_crop, the margin of
\* align_bruteforce and of every level of pyramid_align satisfies
\* 0 <= margin <= n // 4, so the scored region [margin, n - margin) is not
\* empty and keeps at least half of the axis.
C7_CropBound ==
    (h > 0) =>
        /\ SizesOfScoredGrid
        /\ 0 <= ch /\ ch <= h \div 4 /\ 0 <= cw /\ cw <= w \div 4
        /\ h - 2 * ch >= 1 /\ 2 * (h - 2 * ch) >= h
        /\ w - 2 * cw >= 1 /\ 2 * (w - 2 * cw) >= w

\* C7 witness: a pyramid level below level 0 where edge_crop > 1/4 asks for
\* more than a quarter and the margin is the cap n // 4 >= 1.
C7_Witness ==
    /\ Callee = "pyramid_align" /\ pc = "level" /\ incs # <<>>
    /\ 4 * edge_crop[1] > edge_crop[2]
    /\ IntTrunc(w * edge_crop[1], edge_crop[2]) > w \div 4
    /\ cw = w \div 4 /\ cw >= 1

\* C8 as stated: the margin of a size n is clamp(round(n * edge_crop), 0,
\* n // 4), the product rounded to the nearest integer.
C8_AsStated ==
    (h > 0) =>
        /\ ch = Min(Max(Round(h * edge_crop[1], edge_crop[2]), 0), h \div 4)
        /\ cw = Min(Max(Round(w * edge_crop[1], edge_crop[2]), 0), w \div 4)

\* t is n * edge_crop with its fraction dropped (rounded toward zero)
TowardZero(n, ec, t) ==
    IF n * ec[1] >= 0
    THEN t >= 0 /\ t * ec[2] <= n * ec[1] /\ n * ec[1] < (t + 1) * ec[2]
    ELSE t <= 0 /\ t * ec[2] >= n * ec[1] /\ n * ec[1] > (t - 1) * ec[2]

\* C8 amended: the margin of a size n is clamp(t, 0, n // 4) where t is
\* n * edge_crop truncated toward zero, not rounded to nearest.
C8_Truncates ==
    (h > 0) =>
        /\ \E t \in -Abs(h * edge_crop[1])..Abs(h * edge_crop[1]) :
              TowardZero(h, edge_crop, t) /\ ch = Min(Max(t, 0), h \div 4)
        /\ \E t \in -Abs(w * edge_crop[1])..Abs(w * edge_crop[1]) :
              TowardZero(w, edge_crop, t) /\ cw = Min(Max(t, 0), w \div 4)

\* C8 witness: a size whose product with edge_crop has a fraction of at
\* least one half, below the cap: rounding would give a larger margin.
C8_Witness ==
    /\ h > 0 /\ cw < w \div 4
    /\ Round(w * edge_crop[1], edge_crop[2]) > cw
    /\ cw >= 1

=============================================================================
